---- MODULE Spec2Model ----
(***************************************************************************)
(* A model of gdwg::graph<N, E> (src/src/gdwg_graph.h): a directed         *)
(* multigraph that keeps a std::set<N> of nodes and a                      *)
(* std::vector<std::unique_ptr<edge<N, E>>> of edges.  N and E are int.    *)
(*                                                                         *)
(* A graph object is a record [nodes, edges]; an edge is a record          *)
(* [src, dst, weight] whose weight is what get_weight() returns: the empty *)
(* sequence for std::nullopt (an unweighted_edge) and <<w>> for a          *)
(* weighted_edge of weight w.  Every method is an operator from the graph  *)
(* it is called on (and its arguments) to the graph it leaves and what it  *)
(* returns; an action applies one method to one graph object and records   *)
(* the call in `last`.                                                     *)
(***************************************************************************)
EXTENDS Integers, Sequences, FiniteSets, TLC

\* The graph objects, by name, and the last call made: the method, the
\* object it was called on, its arguments, what it returned ("true", "false",
\* "void", or "throws" for std::runtime_error) and, for a method that returns
\* a container or writes a stream, that output.
VARIABLES graphs, last

vars == <<graphs, last>>

----------------------------------------------------------------------------
\* Bounds of the model.

\* Node values are 1..MaxNode.
MaxNode == 3

\* Edge weights are 1..MaxWeight.
MaxWeight == 2

\* insert_edge is not called where it would leave more edges than this.
MaxEdges == 2

\* The same three bounds for the specification of two graph objects.
PairMaxNode == 3

PairMaxWeight == 0

PairMaxEdges == 2

\* The same three bounds for the specification of the order of the edges:
\* three edges, so that insert_edge meets a store of two edges out of order.
OrderMaxNode == 3

OrderMaxWeight == 2

OrderMaxEdges == 3

Nodes == 1..MaxNode

Weights == 1..MaxWeight

PairNodes == 1..PairMaxNode

PairWeights == 1..PairMaxWeight

OrderNodes == 1..OrderMaxNode

OrderWeights == 1..OrderMaxWeight

\* std::optional<E>: std::nullopt, or a value.
nullopt == <<>>

Optional(W) == {nullopt} \cup {<<w>> : w \in W}

----------------------------------------------------------------------------
\* The edge classes.

unweighted_edge(src, dst) == [src |-> src, dst |-> dst, weight |-> nullopt]

weighted_edge(src, dst, weight) == [src |-> src, dst |-> dst, weight |-> <<weight>>]

is_weighted(e) == e.weight # nullopt

get_weight(e) == e.weight

get_nodes(e) == <<e.src, e.dst>>

\* weighted_edge::operator== and unweighted_edge::operator==: the dynamic
\* cast makes edges of different classes unequal.
edge_equals(lhs, rhs) ==
    IF is_weighted(lhs)
    THEN is_weighted(rhs) /\ lhs.src = rhs.src /\ lhs.dst = rhs.dst
         /\ lhs.weight[1] = rhs.weight[1]
    ELSE ~is_weighted(rhs) /\ lhs.src = rhs.src /\ lhs.dst = rhs.dst

\* print_edge: the pieces written to the string stream, in order.
print_edge(e) ==
    IF is_weighted(e)
    THEN <<ToString(e.src), " -> ", ToString(e.dst), " | W | ", ToString(e.weight[1])>>
    ELSE <<ToString(e.src), " -> ", ToString(e.dst), " | U">>

\* graph::edge_compare.
edge_compare(lhs, rhs) ==
    IF lhs.src # rhs.src THEN lhs.src < rhs.src
    ELSE IF lhs.dst # rhs.dst THEN lhs.dst < rhs.dst
    ELSE IF is_weighted(lhs) # is_weighted(rhs) THEN ~is_weighted(lhs)
    ELSE IF is_weighted(lhs) /\ is_weighted(rhs) THEN lhs.weight[1] < rhs.weight[1]
    ELSE FALSE

----------------------------------------------------------------------------
\* The standard algorithms the methods call.

\* One insertion step of the sort: e goes before the first element it
\* compares less than.
RECURSIVE sort_insert(_, _)
sort_insert(s, e) ==
    IF s = <<>> THEN <<e>>
    ELSE IF edge_compare(e, Head(s)) THEN <<e>> \o s
    ELSE <<Head(s)>> \o sort_insert(Tail(s), e)

\* std::sort(_edges.begin(), _edges.end(), edge_compare).  Elements that
\* edge_compare does not order are equal edges, so the result is the same
\* sequence of values whatever the algorithm.
RECURSIVE sort(_)
sort(s) ==
    IF s = <<>> THEN <<>>
    ELSE sort_insert(sort(SubSeq(s, 1, Len(s) - 1)), s[Len(s)])

\* std::unique with the predicate *lhs == *rhs, and the erase of the tail it
\* returns: of each run of consecutive equal edges the first is kept.
RECURSIVE unique(_)
unique(s) ==
    IF Len(s) <= 1 THEN s
    ELSE IF edge_equals(s[1], s[2]) THEN unique(<<s[1]>> \o SubSeq(s, 3, Len(s)))
    ELSE <<s[1]>> \o unique(Tail(s))

\* The loop below with the assignment to dst left out.
rename_src_only(s, old_data, new_data) ==
    [k \in 1..Len(s) |->
        [src |-> IF s[k].src = old_data THEN new_data ELSE s[k].src,
         dst |-> s[k].dst,
         weight |-> s[k].weight]]

\* The loop of replace_node and merge_replace_node over _edges: src and dst
\* equal to old_data are overwritten, in place.
rename(s, old_data, new_data) ==
    [k \in 1..Len(s) |->
        [src |-> IF s[k].src = old_data THEN new_data ELSE s[k].src,
         dst |-> IF s[k].dst = old_data THEN new_data ELSE s[k].dst,
         weight |-> s[k].weight]]

\* The predicate of erase_edge (and of find).
edge_matches(e, src, dst, weight) ==
    IF e.src = src /\ e.dst = dst
    THEN IF weight # nullopt
         THEN is_weighted(e) /\ get_weight(e) = weight
         ELSE ~is_weighted(e)
    ELSE FALSE

----------------------------------------------------------------------------
\* The methods of graph.  G is the object (*this); the result is the object
\* after the call and the value returned.

Result(G, ret) == [graph |-> G, ret |-> ret, out |-> <<>>]

ResultOut(G, ret, out) == [graph |-> G, ret |-> ret, out |-> out]

Bool(b) == IF b THEN "true" ELSE "false"

\* graph(std::initializer_list<N>), graph(InputIt, InputIt), graph().
graph(il) == [nodes |-> il, edges |-> <<>>]

is_node(G, value) == value \in G.nodes

\* insert_node returning true whether or not the value was inserted.
insert_node_always_true(G, value) ==
    Result([G EXCEPT !.nodes = @ \cup {value}], "true")

insert_node(G, value) ==
    Result([G EXCEPT !.nodes = @ \cup {value}], Bool(value \notin G.nodes))

\* insert_edge whose test for an equal edge compares src and dst alone.
insert_edge_one_per_pair(G, src, dst, weight) ==
    IF ~is_node(G, src) \/ ~is_node(G, dst) THEN Result(G, "throws")
    ELSE LET new_edge == IF weight # nullopt
                         THEN weighted_edge(src, dst, weight[1])
                         ELSE unweighted_edge(src, dst)
         IN  IF \E k \in 1..Len(G.edges) : get_nodes(G.edges[k]) = get_nodes(new_edge)
             THEN Result(G, "false")
             ELSE Result([G EXCEPT !.edges = sort(Append(@, new_edge))], "true")

\* insert_edge that pushes the new edge and does not sort.
insert_edge_appending(G, src, dst, weight) ==
    IF ~is_node(G, src) \/ ~is_node(G, dst) THEN Result(G, "throws")
    ELSE LET new_edge == IF weight # nullopt
                         THEN weighted_edge(src, dst, weight[1])
                         ELSE unweighted_edge(src, dst)
         IN  IF \E k \in 1..Len(G.edges) : edge_equals(G.edges[k], new_edge)
             THEN Result(G, "false")
             ELSE Result([G EXCEPT !.edges = Append(@, new_edge)], "true")

insert_edge(G, src, dst, weight) ==
    IF ~is_node(G, src) \/ ~is_node(G, dst) THEN Result(G, "throws")
    ELSE LET new_edge == IF weight # nullopt
                         THEN weighted_edge(src, dst, weight[1])
                         ELSE unweighted_edge(src, dst)
         IN  IF \E k \in 1..Len(G.edges) : edge_equals(G.edges[k], new_edge)
             THEN Result(G, "false")
             ELSE Result([G EXCEPT !.edges = sort(Append(@, new_edge))], "true")

\* replace_node that renames the edges before it finds new_data is a node.
replace_node_renaming_first(G, old_data, new_data) ==
    IF ~is_node(G, old_data) THEN Result(G, "throws")
    ELSE IF is_node(G, new_data)
    THEN Result([G EXCEPT !.edges = rename(@, old_data, new_data)], "false")
    ELSE Result([nodes |-> (G.nodes \ {old_data}) \cup {new_data},
                 edges |-> rename(G.edges, old_data, new_data)], "true")

replace_node(G, old_data, new_data) ==
    IF ~is_node(G, old_data) THEN Result(G, "throws")
    ELSE IF is_node(G, new_data) THEN Result(G, "false")
    ELSE Result([nodes |-> (G.nodes \ {old_data}) \cup {new_data},
                 edges |-> rename(G.edges, old_data, new_data)], "true")

\* merge_replace_node with a guard that tests old_data alone.
merge_replace_node_unchecked_new(G, old_data, new_data) ==
    IF ~is_node(G, old_data) THEN Result(G, "throws")
    ELSE Result([nodes |-> G.nodes \ {old_data},
                 edges |-> unique(sort(rename(G.edges, old_data, new_data)))], "void")

\* merge_replace_node without the removal of duplicate edges.
merge_replace_node_without_unique(G, old_data, new_data) ==
    IF ~is_node(G, old_data) \/ ~is_node(G, new_data) THEN Result(G, "throws")
    ELSE Result([nodes |-> G.nodes \ {old_data},
                 edges |-> sort(rename(G.edges, old_data, new_data))], "void")

merge_replace_node(G, old_data, new_data) ==
    IF ~is_node(G, old_data) \/ ~is_node(G, new_data) THEN Result(G, "throws")
    ELSE Result([nodes |-> G.nodes \ {old_data},
                 edges |-> unique(sort(rename(G.edges, old_data, new_data)))], "void")

\* erase_node that removes the edges leaving the node, not those entering it.
erase_node_src_only(G, value) ==
    IF ~is_node(G, value) THEN Result(G, "false")
    ELSE Result([nodes |-> G.nodes \ {value},
                 edges |-> SelectSeq(G.edges, LAMBDA e : e.src # value)], "true")

erase_node(G, value) ==
    IF ~is_node(G, value) THEN Result(G, "false")
    ELSE LET incident(e) == e.src = value \/ e.dst = value
         IN  Result([nodes |-> G.nodes \ {value},
                     edges |-> SelectSeq(G.edges, LAMBDA e : ~incident(e))], "true")

erase_edge(G, src, dst, weight) ==
    IF ~is_node(G, src) \/ ~is_node(G, dst) THEN Result(G, "throws")
    ELSE LET kept == SelectSeq(G.edges, LAMBDA e : ~edge_matches(e, src, dst, weight))
         IN  IF Len(kept) # Len(G.edges)
             THEN Result([G EXCEPT !.edges = kept], "true")
             ELSE Result(G, "false")

clear(G) == Result([nodes |-> {}, edges |-> <<>>], "void")

is_connected(G, src, dst) ==
    IF ~is_node(G, src) \/ ~is_node(G, dst) THEN Result(G, "throws")
    ELSE Result(G, Bool(\E k \in 1..Len(G.edges) :
                            G.edges[k].src = src /\ G.edges[k].dst = dst))

edges(G, src, dst) ==
    IF ~is_node(G, src) \/ ~is_node(G, dst) THEN Result(G, "throws")
    ELSE ResultOut(G, "value",
                   sort(SelectSeq(G.edges, LAMBDA e : e.src = src /\ e.dst = dst)))

\* std::vector<N>(result.begin(), result.end()) of a std::set<N>: its
\* elements in ascending order.
RECURSIVE ascending(_)
ascending(S) ==
    IF S = {} THEN <<>>
    ELSE LET least == CHOOSE v \in S : \A u \in S : v <= u
         IN  <<least>> \o ascending(S \ {least})

connections(G, src) ==
    IF ~is_node(G, src) THEN Result(G, "throws")
    ELSE ResultOut(G, "value",
                   ascending({G.edges[k].dst : k \in {j \in 1..Len(G.edges) : G.edges[j].src = src}}))

\* The two vectors operator== builds from one graph's _edges: the (src, dst)
\* of its unweighted edges and the (src, dst, weight) of its weighted edges,
\* each in the order of _edges.
RECURSIVE pairs_of(_)
pairs_of(s) ==
    IF s = <<>> THEN <<>>
    ELSE IF is_weighted(Head(s)) THEN pairs_of(Tail(s))
    ELSE <<<<Head(s).src, Head(s).dst>>>> \o pairs_of(Tail(s))

RECURSIVE tuples_of(_)
tuples_of(s) ==
    IF s = <<>> THEN <<>>
    ELSE IF is_weighted(Head(s))
         THEN <<<<Head(s).src, Head(s).dst, Head(s).weight[1]>>>> \o tuples_of(Tail(s))
         ELSE tuples_of(Tail(s))

\* graph::operator==.
equals(G, other) ==
    IF G.nodes # other.nodes \/ Len(G.edges) # Len(other.edges) THEN FALSE
    ELSE IF pairs_of(G.edges) # pairs_of(other.edges)
            \/ tuples_of(G.edges) # tuples_of(other.edges) THEN FALSE
    ELSE TRUE

\* operator<<: the text as its lines, each line the pieces written to the
\* stream before its "\n".  The text starts with "\n", an empty first line.
RECURSIVE edge_lines(_, _, _)
edge_lines(s, node, weighted) ==
    IF s = <<>> THEN <<>>
    ELSE IF Head(s).src = node /\ is_weighted(Head(s)) = weighted
         THEN <<<<"  ">> \o print_edge(Head(s))>> \o edge_lines(Tail(s), node, weighted)
         ELSE edge_lines(Tail(s), node, weighted)

\* The blocks below with the two loops that write a block's lines swapped.
RECURSIVE node_blocks_weighted_first(_, _)
node_blocks_weighted_first(G, ns) ==
    IF ns = <<>> THEN <<>>
    ELSE LET node == Head(ns)
             unweighted_edges == edge_lines(G.edges, node, FALSE)
             weighted_edges == edge_lines(G.edges, node, TRUE)
         IN  <<<<ToString(node), " (">>>> \o weighted_edges \o unweighted_edges
             \o <<<<")">>>> \o node_blocks_weighted_first(G, Tail(ns))

RECURSIVE node_blocks(_, _)
node_blocks(G, ns) ==
    IF ns = <<>> THEN <<>>
    ELSE LET node == Head(ns)
             unweighted_edges == edge_lines(G.edges, node, FALSE)
             weighted_edges == edge_lines(G.edges, node, TRUE)
         IN  <<<<ToString(node), " (">>>> \o unweighted_edges \o weighted_edges
             \o <<<<")">>>> \o node_blocks(G, Tail(ns))

print(G) == <<<<>>>> \o node_blocks(G, ascending(G.nodes))

\* graph::empty.
empty(G) == Result(G, Bool(G.nodes = {} /\ G.edges = <<>>))

\* An iterator holds a std::vector const_iterator, _it: here the position in
\* _edges it points at, 1 for _edges.begin(), Len(_edges) + 1 for _edges.end().
begin(G) == 1

end(G) == Len(G.edges) + 1

\* find whose predicate compares src and dst alone.
find_any_weight(G, src, dst, weight) ==
    LET found == {k \in 1..Len(G.edges) : get_nodes(G.edges[k]) = <<src, dst>>}
    IN  IF found = {} THEN end(G)
        ELSE CHOOSE k \in found : \A j \in found : k <= j

\* std::find_if over _edges with the predicate of find: the first position
\* whose edge matches, _edges.end() when none does.
find(G, src, dst, weight) ==
    LET found == {k \in 1..Len(G.edges) : edge_matches(G.edges[k], src, dst, weight)}
    IN  IF found = {} THEN end(G)
        ELSE CHOOSE k \in found : \A j \in found : k <= j

\* operator* with from and to exchanged.
dereference_reversed(G, it) ==
    LET nodes == get_nodes(G.edges[it])
    IN  [from |-> nodes[2], to |-> nodes[1], weight |-> get_weight(G.edges[it])]

\* iterator::operator*, operator++, operator-- and operator==.
dereference(G, it) ==
    LET nodes == get_nodes(G.edges[it])
    IN  [from |-> nodes[1], to |-> nodes[2], weight |-> get_weight(G.edges[it])]

increment(it) == it + 1

decrement(it) == it - 1

iterator_equals(it, other) == it = other

\* edge::clone.
clone(e) ==
    IF is_weighted(e) THEN weighted_edge(e.src, e.dst, e.weight[1])
    ELSE unweighted_edge(e.src, e.dst)

\* The loop of the copy constructor and of copy assignment: a clone of every
\* edge of other is pushed onto _edges.
push_clones(to, from) == to \o [k \in 1..Len(from) |-> clone(from[k])]

\* graph(graph const& other).
copy_construct(other) == [nodes |-> other.nodes, edges |-> push_clones(<<>>, other.edges)]

copy_assign_keeping_edges(G, other) ==
    [nodes |-> other.nodes, edges |-> push_clones(G.edges, other.edges)]

\* operator=(graph const& other), other another object than *this.
copy_assign(G, other) ==
    [nodes |-> other.nodes, edges |-> push_clones(<<>>, other.edges)]

\* graph(graph&& other) and operator=(graph&& other), other another object
\* than *this: what *this holds, and what the std::set and the std::vector
\* that were moved from hold (nothing, in libstdc++, libc++ and MSVC; the
\* C++ standard requires it of the std::vector move constructor only).
move_to(other) == [nodes |-> other.nodes, edges |-> other.edges]

moved_from_untouched(other) == other

moved_from(other) == [nodes |-> {}, edges |-> <<>>]

----------------------------------------------------------------------------
\* The actions: one call of one method on the graph object `this`.  In `last`
\* x and y are the node arguments in the order of the signature (0 where the
\* method has none, no node being 0), weight the std::optional<E> argument,
\* other the right-hand side of operator== (and of a copy or a move), it the
\* position in _edges of the iterator a call returns or acts on (0 where the
\* call has no iterator).

Called(op, this, x, y, weight, r) ==
    /\ graphs' = [graphs EXCEPT ![this] = r.graph]
    /\ last' = [op |-> op, this |-> this, other |-> this, x |-> x, y |-> y,
                weight |-> weight, it |-> 0, ret |-> r.ret, out |-> r.out]

InsertNode(this, value) ==
    Called("insert_node", this, value, 0, nullopt, insert_node(graphs[this], value))

InsertEdge(this, src, dst, weight) ==
    Called("insert_edge", this, src, dst, weight, insert_edge(graphs[this], src, dst, weight))

ReplaceNode(this, old_data, new_data) ==
    Called("replace_node", this, old_data, new_data, nullopt,
           replace_node(graphs[this], old_data, new_data))

MergeReplaceNode(this, old_data, new_data) ==
    Called("merge_replace_node", this, old_data, new_data, nullopt,
           merge_replace_node(graphs[this], old_data, new_data))

EraseNode(this, value) ==
    Called("erase_node", this, value, 0, nullopt, erase_node(graphs[this], value))

EraseEdge(this, src, dst, weight) ==
    Called("erase_edge", this, src, dst, weight, erase_edge(graphs[this], src, dst, weight))

Clear(this) ==
    Called("clear", this, 0, 0, nullopt, clear(graphs[this]))

IsConnected(this, src, dst) ==
    Called("is_connected", this, src, dst, nullopt, is_connected(graphs[this], src, dst))

Edges(this, src, dst) ==
    Called("edges", this, src, dst, nullopt, edges(graphs[this], src, dst))

Connections(this, src) ==
    Called("connections", this, src, 0, nullopt, connections(graphs[this], src))

Equals(this, other) ==
    /\ last' = [op |-> "operator==", this |-> this, other |-> other, x |-> 0,
                y |-> 0, weight |-> nullopt, it |-> 0,
                ret |-> Bool(equals(graphs[this], graphs[other])), out |-> <<>>]
    /\ UNCHANGED graphs

StreamOut(this) ==
    /\ last' = [op |-> "operator<<", this |-> this, other |-> this, x |-> 0,
                y |-> 0, weight |-> nullopt, it |-> 0, ret |-> "void",
                out |-> print(graphs[this])]
    /\ UNCHANGED graphs

Constructed(Objs, N) ==
    /\ graphs \in [Objs -> {graph(il) : il \in SUBSET N}]
    /\ last = [op |-> "graph", this |-> CHOOSE o \in Objs : TRUE,
               other |-> CHOOSE o \in Objs : TRUE, x |-> 0, y |-> 0,
               weight |-> nullopt, it |-> 0, ret |-> "void", out |-> <<>>]

\* One graph object, g.
Init == Constructed({"g"}, Nodes)

Next ==
    \/ \E this \in DOMAIN graphs, value \in Nodes : InsertNode(this, value)
    \/ \E this \in DOMAIN graphs, src, dst \in Nodes, weight \in Optional(Weights) :
           /\ Len(insert_edge(graphs[this], src, dst, weight).graph.edges) <= MaxEdges
           /\ InsertEdge(this, src, dst, weight)
    \/ \E this \in DOMAIN graphs, old_data, new_data \in Nodes :
           ReplaceNode(this, old_data, new_data)
    \/ \E this \in DOMAIN graphs, old_data, new_data \in Nodes :
           MergeReplaceNode(this, old_data, new_data)
    \/ \E this \in DOMAIN graphs, value \in Nodes : EraseNode(this, value)
    \/ \E this \in DOMAIN graphs, src, dst \in Nodes, weight \in Optional(Weights) :
           EraseEdge(this, src, dst, weight)
    \/ \E this \in DOMAIN graphs : Clear(this)
    \/ \E this \in DOMAIN graphs, src, dst \in Nodes : IsConnected(this, src, dst)
    \/ \E this \in DOMAIN graphs, src, dst \in Nodes : Edges(this, src, dst)
    \/ \E this \in DOMAIN graphs, src \in Nodes : Connections(this, src)
    \/ \E this \in DOMAIN graphs : StreamOut(this)

Spec == Init /\ [][Next]_vars

\* Two graph objects, g1 and g2, each built by its own calls of insert_node,
\* insert_edge, replace_node, erase_node, erase_edge and clear, and compared
\* with operator==, copied and moved.  Of a call that builds them only the
\* object it is made on is recorded in `last`.
PairInit == Constructed({"g1", "g2"}, PairNodes)

Built(op, this, r) ==
    /\ graphs' = [graphs EXCEPT ![this] = r.graph]
    /\ last' = [op |-> "graph", this |-> this, other |-> this, x |-> 0,
                y |-> 0, weight |-> nullopt, it |-> 0, ret |-> "void", out |-> <<>>]

PairInsertNode(this, value) ==
    Built("insert_node", this, insert_node(graphs[this], value))

PairInsertEdge(this, src, dst, weight) ==
    Built("insert_edge", this, insert_edge(graphs[this], src, dst, weight))

PairReplaceNode(this, old_data, new_data) ==
    Built("replace_node", this, replace_node(graphs[this], old_data, new_data))

PairEraseNode(this, value) ==
    Built("erase_node", this, erase_node(graphs[this], value))

PairEraseEdge(this, src, dst, weight) ==
    Built("erase_edge", this, erase_edge(graphs[this], src, dst, weight))

PairClear(this) ==
    Built("clear", this, clear(graphs[this]))

\* A copy or a move: *this is the object constructed or assigned to, other
\* the one it is copied or moved from.  Construction makes a new object, so
\* other is another object; assignment checks this != &other itself.
Transferred(op, this, other, to, from) ==
    /\ graphs' = [graphs EXCEPT ![this] = to, ![other] = from]
    /\ last' = [op |-> op, this |-> this, other |-> other, x |-> 0, y |-> 0,
                weight |-> nullopt, it |-> 0, ret |-> "void", out |-> <<>>]

CopyConstruct(this, other) ==
    /\ this # other
    /\ Transferred("graph(graph const&)", this, other,
                   copy_construct(graphs[other]), graphs[other])

CopyAssign(this, other) ==
    IF this # other
    THEN Transferred("operator=(graph const&)", this, other,
                     copy_assign(graphs[this], graphs[other]), graphs[other])
    ELSE Transferred("operator=(graph const&)", this, other,
                     graphs[this], graphs[this])

MoveConstruct(this, other) ==
    /\ this # other
    /\ Transferred("graph(graph&&)", this, other,
                   move_to(graphs[other]), moved_from(graphs[other]))

MoveAssign(this, other) ==
    IF this # other
    THEN Transferred("operator=(graph&&)", this, other,
                     move_to(graphs[other]), moved_from(graphs[other]))
    ELSE Transferred("operator=(graph&&)", this, other,
                     graphs[this], graphs[this])

PairNext ==
    \/ \E this \in DOMAIN graphs, value \in PairNodes : PairInsertNode(this, value)
    \/ \E this \in DOMAIN graphs, src, dst \in PairNodes, weight \in Optional(PairWeights) :
           /\ Len(insert_edge(graphs[this], src, dst, weight).graph.edges) <= PairMaxEdges
           /\ PairInsertEdge(this, src, dst, weight)
    \/ \E this \in DOMAIN graphs, old_data, new_data \in PairNodes :
           PairReplaceNode(this, old_data, new_data)
    \/ \E this \in DOMAIN graphs, value \in PairNodes : PairEraseNode(this, value)
    \/ \E this \in DOMAIN graphs, src, dst \in PairNodes, weight \in Optional(PairWeights) :
           PairEraseEdge(this, src, dst, weight)
    \/ \E this \in DOMAIN graphs : PairClear(this)
    \/ \E this, other \in DOMAIN graphs : Equals(this, other)
    \/ \E this, other \in DOMAIN graphs : CopyConstruct(this, other)
    \/ \E this, other \in DOMAIN graphs : CopyAssign(this, other)
    \/ \E this, other \in DOMAIN graphs : MoveConstruct(this, other)
    \/ \E this, other \in DOMAIN graphs : MoveAssign(this, other)

PairSpec == PairInit /\ [][PairNext]_vars

\* One graph object, g, built by calls of which only the object is recorded
\* (merge_replace_node among them), and queried with empty, find, begin and
\* end.  An iterator a query returned is then advanced, moved back and
\* dereferenced; it is gone with the next call that builds the graph, since
\* that call may invalidate the std::vector iterator it holds.
BuiltMergeReplaceNode(this, old_data, new_data) ==
    Built("merge_replace_node", this,
          merge_replace_node(graphs[this], old_data, new_data))

Queried(op, this, src, dst, weight, it, r) ==
    /\ last' = [op |-> op, this |-> this, other |-> this, x |-> src, y |-> dst,
                weight |-> weight, it |-> it, ret |-> r.ret, out |-> r.out]
    /\ UNCHANGED graphs

Empty(this) == Queried("empty", this, 0, 0, nullopt, 0, empty(graphs[this]))

Find(this, src, dst, weight) ==
    Queried("find", this, src, dst, weight, find(graphs[this], src, dst, weight),
            Result(graphs[this], "iterator"))

Begin(this) ==
    Queried("begin", this, 0, 0, nullopt, begin(graphs[this]),
            Result(graphs[this], "iterator"))

End(this) ==
    Queried("end", this, 0, 0, nullopt, end(graphs[this]),
            Result(graphs[this], "iterator"))

IteratorOps == {"find", "begin", "end", "operator++", "operator--", "operator*"}

\* ++it, for an iterator of *this that is not end().
Increment(this) ==
    /\ last.op \in IteratorOps /\ last.this = this
    /\ ~iterator_equals(last.it, end(graphs[this]))
    /\ Queried("operator++", this, 0, 0, nullopt, increment(last.it),
               Result(graphs[this], "iterator"))

\* --it, for an iterator of *this that is not begin().
Decrement(this) ==
    /\ last.op \in IteratorOps /\ last.this = this
    /\ ~iterator_equals(last.it, begin(graphs[this]))
    /\ Queried("operator--", this, 0, 0, nullopt, decrement(last.it),
               Result(graphs[this], "iterator"))

\* *it, for an iterator of *this that is not end().
Dereference(this) ==
    /\ last.op \in IteratorOps /\ last.this = this
    /\ ~iterator_equals(last.it, end(graphs[this]))
    /\ Queried("operator*", this, 0, 0, nullopt, last.it,
               ResultOut(graphs[this], "value", <<dereference(graphs[this], last.it)>>))

QueryNext ==
    \/ \E this \in DOMAIN graphs, value \in Nodes : PairInsertNode(this, value)
    \/ \E this \in DOMAIN graphs, src, dst \in Nodes, weight \in Optional(Weights) :
           /\ Len(insert_edge(graphs[this], src, dst, weight).graph.edges) <= MaxEdges
           /\ PairInsertEdge(this, src, dst, weight)
    \/ \E this \in DOMAIN graphs, old_data, new_data \in Nodes :
           PairReplaceNode(this, old_data, new_data)
    \/ \E this \in DOMAIN graphs, old_data, new_data \in Nodes :
           BuiltMergeReplaceNode(this, old_data, new_data)
    \/ \E this \in DOMAIN graphs, value \in Nodes : PairEraseNode(this, value)
    \/ \E this \in DOMAIN graphs, src, dst \in Nodes, weight \in Optional(Weights) :
           PairEraseEdge(this, src, dst, weight)
    \/ \E this \in DOMAIN graphs : PairClear(this)
    \/ \E this \in DOMAIN graphs : Empty(this)
    \/ \E this \in DOMAIN graphs, src, dst \in Nodes, weight \in Optional(Weights) :
           Find(this, src, dst, weight)
    \/ \E this \in DOMAIN graphs : Begin(this)
    \/ \E this \in DOMAIN graphs : End(this)
    \/ \E this \in DOMAIN graphs : Increment(this)
    \/ \E this \in DOMAIN graphs : Decrement(this)
    \/ \E this \in DOMAIN graphs : Dereference(this)

QuerySpec == Init /\ [][QueryNext]_vars

\* One graph object, g, of up to OrderMaxEdges edges.  Of a call of
\* insert_edge, merge_replace_node, erase_node or erase_edge the method and
\* what it returned are recorded, not its arguments; of insert_node,
\* replace_node and clear only the object.
OrderInit == Constructed({"g"}, OrderNodes)

Noted(op, this, r) ==
    /\ graphs' = [graphs EXCEPT ![this] = r.graph]
    /\ last' = [op |-> op, this |-> this, other |-> this, x |-> 0, y |-> 0,
                weight |-> nullopt, it |-> 0, ret |-> r.ret, out |-> <<>>]

NotedInsertEdge(this, src, dst, weight) ==
    Noted("insert_edge", this, insert_edge(graphs[this], src, dst, weight))

NotedMergeReplaceNode(this, old_data, new_data) ==
    Noted("merge_replace_node", this,
          merge_replace_node(graphs[this], old_data, new_data))

NotedEraseNode(this, value) ==
    Noted("erase_node", this, erase_node(graphs[this], value))

NotedEraseEdge(this, src, dst, weight) ==
    Noted("erase_edge", this, erase_edge(graphs[this], src, dst, weight))

OrderNext ==
    \/ \E this \in DOMAIN graphs, value \in OrderNodes : PairInsertNode(this, value)
    \/ \E this \in DOMAIN graphs, src, dst \in OrderNodes,
          weight \in Optional(OrderWeights) :
           /\ Len(insert_edge(graphs[this], src, dst, weight).graph.edges) <= OrderMaxEdges
           /\ NotedInsertEdge(this, src, dst, weight)
    \/ \E this \in DOMAIN graphs, old_data, new_data \in OrderNodes :
           PairReplaceNode(this, old_data, new_data)
    \/ \E this \in DOMAIN graphs, old_data, new_data \in OrderNodes :
           NotedMergeReplaceNode(this, old_data, new_data)
    \/ \E this \in DOMAIN graphs, value \in OrderNodes : NotedEraseNode(this, value)
    \/ \E this \in DOMAIN graphs, src, dst \in OrderNodes,
          weight \in Optional(OrderWeights) :
           NotedEraseEdge(this, src, dst, weight)
    \/ \E this \in DOMAIN graphs : PairClear(this)

OrderSpec == OrderInit /\ [][OrderNext]_vars

----------------------------------------------------------------------------
\* What the properties below are stated with.  None of it is used by the
\* model above.

\* The graph object the last call was made on, before and after a step.
Before == graphs[last'.this]

After == graphs'[last'.this]

Current == graphs[last.this]

EdgeSet(G) == {G.edges[k] : k \in 1..Len(G.edges)}

\* The canonical order: src, then dst, then unweighted before weighted, then
\* weight.
Rank(e) == <<e.src, e.dst, IF e.weight = <<>> THEN 0 ELSE 1,
             IF e.weight = <<>> THEN 0 ELSE e.weight[1]>>

Precedes(a, b) ==
    \E k \in 1..4 : Rank(a)[k] < Rank(b)[k] /\ \A j \in 1..(k - 1) : Rank(a)[j] = Rank(b)[j]

IsCanonical(s) == \A i, j \in 1..Len(s) : i < j => ~Precedes(s[j], s[i])

NoTwoEqual(s) == \A i, j \in 1..Len(s) : i # j => s[i] # s[j]

Incident(e, v) == e.src = v \/ e.dst = v

Redirected(e, old, new) ==
    [src |-> IF e.src = old THEN new ELSE e.src,
     dst |-> IF e.dst = old THEN new ELSE e.dst,
     weight |-> e.weight]

\* C1: after every call, the edges of every graph are in canonical order.
C1_EdgeStoreCanonical == \A o \in DOMAIN graphs : IsCanonical(graphs[o].edges)

\* C2: after every call, the src and the dst of every edge are nodes of the
\* graph.
C2_EdgesNameNodes ==
    \A o \in DOMAIN graphs : \A e \in EdgeSet(graphs[o]) :
        e.src \in graphs[o].nodes /\ e.dst \in graphs[o].nodes

\* C3: after every call, no graph holds two structurally equal edges.
C3_NoDuplicateEdges == \A o \in DOMAIN graphs : NoTwoEqual(graphs[o].edges)

\* C4: insert_edge, erase_edge, is_connected and edges throw exactly when src
\* or dst is not a node, replace_node exactly when old is not a node,
\* merge_replace_node exactly when old or new is not a node, connections
\* exactly when src is not a node; a call that throws leaves the nodes and
\* the edges as they were.
C4_MissingNodeErrors ==
    [][/\ last'.op \in {"insert_edge", "erase_edge", "is_connected", "edges",
                        "merge_replace_node"}
          => (last'.ret = "throws"
                <=> (last'.x \notin Before.nodes \/ last'.y \notin Before.nodes))
       /\ last'.op \in {"replace_node", "connections"}
          => (last'.ret = "throws" <=> last'.x \notin Before.nodes)
       /\ last'.ret = "throws" => graphs' = graphs]_vars

C4_Witness ==
    /\ last.op = "merge_replace_node"
    /\ last.ret = "throws"
    /\ last.x \in Current.nodes
    /\ Len(Current.edges) = MaxEdges

\* C5: g1 == g2 is true exactly when the two graphs have the same set of
\* nodes and the same set of edges.
C5_EqualsIffSameSets ==
    last.op = "operator==" =>
        (last.ret = "true"
           <=> /\ graphs[last.this].nodes = graphs[last.other].nodes
               /\ EdgeSet(graphs[last.this]) = EdgeSet(graphs[last.other]))

\* Reading the text of operator<< back: the number a piece spells, the kinds
\* of line, the edge an edge line spells, and the edge lines between the
\* header line at h and the next closing line.
Num(piece) == CHOOSE n \in Nodes \cup Weights : ToString(n) = piece

IsHeaderLine(l) == Len(l) = 2 /\ l[2] = " ("

IsCloseLine(l) == l = <<")">>

IsEdgeLine(l) ==
    /\ Len(l) \in {5, 6}
    /\ l[1] = "  " /\ l[3] = " -> "
    /\ l[5] = (IF Len(l) = 6 THEN " | W | " ELSE " | U")

ParsedEdge(l) ==
    [src |-> Num(l[2]), dst |-> Num(l[4]),
     weight |-> IF Len(l) = 6 THEN <<Num(l[6])>> ELSE <<>>]

BlockOf(text, h) ==
    LET close == CHOOSE c \in (h + 1)..Len(text) :
                     IsCloseLine(text[c]) /\ \A k \in (h + 1)..(c - 1) : ~IsCloseLine(text[k])
    IN  [k \in 1..(close - h - 1) |-> ParsedEdge(text[h + k])]

Headers(text) == {h \in 1..Len(text) : IsHeaderLine(text[h])}

\* The text is an empty first line and then one block per node, the nodes
\* ascending: a header line, edge lines, a closing line.
BlocksOfNodes(text, G) ==
    /\ text[1] = <<>>
    /\ \A k \in 2..Len(text) :
           IsHeaderLine(text[k]) \/ IsEdgeLine(text[k]) \/ IsCloseLine(text[k])
    /\ {Num(text[h][1]) : h \in Headers(text)} = G.nodes
    /\ \A h1, h2 \in Headers(text) : h1 < h2 => Num(text[h1][1]) < Num(text[h2][1])
    /\ Cardinality({k \in 1..Len(text) : IsCloseLine(text[k])}) = Cardinality(G.nodes)
    /\ Len(text) = 1 + 2 * Cardinality(G.nodes) + Len(SelectSeq(G.edges, LAMBDA e : e.src \in G.nodes))

C7_MergeTargetStays ==
    (last.op = "merge_replace_node" /\ last.ret = "void") => last.y \in Current.nodes

\* C8: merge_replace_node(old, new) with old and new both nodes leaves the
\* nodes without old, and the set of edges the image of the previous set
\* under old -> new on src and dst, no two of them equal; the edges not
\* incident to old stay.
C8_MergeRedirects ==
    [][(last'.op = "merge_replace_node"
            /\ last'.x \in Before.nodes /\ last'.y \in Before.nodes) =>
         /\ last'.ret = "void"
         /\ After.nodes = Before.nodes \ {last'.x}
         /\ EdgeSet(After) = {Redirected(e, last'.x, last'.y) : e \in EdgeSet(Before)}
         /\ NoTwoEqual(After.edges)
         /\ \A e \in EdgeSet(Before) : ~Incident(e, last'.x) => e \in EdgeSet(After)]_vars

\* A merge of two different nodes that leaves MaxEdges edges, all on new.
C8_Witness ==
    /\ last.op = "merge_replace_node" /\ last.ret = "void"
    /\ last.x # last.y
    /\ Len(Current.edges) = MaxEdges
    /\ \A e \in EdgeSet(Current) : e.src = last.y /\ e.dst = last.y

\* C9: replace_node(old, new) with old a node and new not a node returns
\* true; old is then no node, new is one, the other nodes are as before, the
\* edges are as many as before, and each is the edge that was at its place
\* with old replaced by new in src and dst.
C9_ReplaceRenames ==
    [][(last'.op = "replace_node"
            /\ last'.x \in Before.nodes /\ last'.y \notin Before.nodes) =>
         /\ last'.ret = "true"
         /\ last'.x \notin After.nodes /\ last'.y \in After.nodes
         /\ After.nodes \ {last'.x, last'.y} = Before.nodes \ {last'.x, last'.y}
         /\ Len(After.edges) = Len(Before.edges)
         /\ \A k \in 1..Len(Before.edges) :
                LET was == Before.edges[k]
                    is == After.edges[k]
                IN  /\ is.weight = was.weight
                    /\ is.src = (IF was.src = last'.x THEN last'.y ELSE was.src)
                    /\ is.dst = (IF was.dst = last'.x THEN last'.y ELSE was.dst)]_vars

\* A rename that has rewritten the src of one edge and the dst of another.
C9_Witness ==
    /\ last.op = "replace_node" /\ last.ret = "true"
    /\ \E e1, e2 \in EdgeSet(Current) :
           /\ e1.src = last.y /\ e1.dst # last.y
           /\ e2.dst = last.y /\ e2.src # last.y

\* C10: erase_edge(src, dst, weight?) with src and dst both nodes returns true
\* exactly when the graph held a matching edge; then exactly that one edge is
\* removed; the other edges, their order and the nodes are as before.
C10_EraseEdgeRemovesOne ==
    [][(last'.op = "erase_edge"
            /\ last'.x \in Before.nodes /\ last'.y \in Before.nodes) =>
         LET target == [src |-> last'.x, dst |-> last'.y, weight |-> last'.weight]
         IN  /\ last'.ret = (IF target \in EdgeSet(Before) THEN "true" ELSE "false")
             /\ After.nodes = Before.nodes
             /\ last'.ret = "false" => After.edges = Before.edges
             /\ last'.ret = "true" =>
                    \E k \in 1..Len(Before.edges) :
                        /\ Before.edges[k] = target
                        /\ After.edges = SubSeq(Before.edges, 1, k - 1)
                                         \o SubSeq(Before.edges, k + 1, Len(Before.edges))]_vars

\* C11: empty() returns true exactly when the graph has no nodes.
C11_EmptyIffNoNodes ==
    last.op = "empty" => (last.ret = "true" <=> Current.nodes = {})

C13_EraseNodeRemovesIncident ==
    [][last'.op = "erase_node" =>
         IF last'.x \in Before.nodes
         THEN /\ last'.ret = "true"
              /\ After.nodes = Before.nodes \ {last'.x}
              /\ LET v == last'.x
                     kept(e) == ~Incident(e, v)
                 IN  After.edges = SelectSeq(Before.edges, kept)
         ELSE last'.ret = "false"]_vars

\* An erase_node that has removed a node and left an edge between the nodes
\* that remain.
C13_Witness ==
    /\ last.op = "erase_node" /\ last.ret = "true"
    /\ Cardinality(Current.nodes) = MaxNode - 1
    /\ \E e \in EdgeSet(Current) : e.src \in Current.nodes /\ e.dst \in Current.nodes

\* C14: insert_edge(src, dst, weight?) with src and dst both nodes returns
\* true exactly when the graph held no edge with that src, that dst and that
\* weight (no weight and a weight, and two different weights, being
\* different); when it returns true the edges are those held before and the
\* new one, one more in number, and the nodes are as before.
C14_InsertEdgeIffNew ==
    [][(last'.op = "insert_edge"
            /\ last'.x \in Before.nodes /\ last'.y \in Before.nodes) =>
         LET new_edge == [src |-> last'.x, dst |-> last'.y, weight |-> last'.weight]
         IN  /\ last'.ret = (IF new_edge \in EdgeSet(Before) THEN "false" ELSE "true")
             /\ last'.ret = "true" =>
                    /\ EdgeSet(After) = EdgeSet(Before) \cup {new_edge}
                    /\ Len(After.edges) = Len(Before.edges) + 1
                    /\ After.nodes = Before.nodes]_vars

\* An insert_edge that has returned true for a weighted edge between two
\* nodes that already had an edge of another weight or of no weight.
C14_Witness ==
    /\ last.op = "insert_edge" /\ last.ret = "true" /\ last.weight # nullopt
    /\ \E e \in EdgeSet(Current) :
           e.src = last.x /\ e.dst = last.y /\ e.weight # last.weight

\* C15: after a move construction, or a move assignment to another graph
\* object, the graph moved from has no nodes and no edges and its empty() is
\* true, and the destination holds the nodes and the edges the source held
\* before the move.
C15_MoveEmptiesSource ==
    [][(last'.op \in {"graph(graph&&)", "operator=(graph&&)"}
            /\ last'.this # last'.other) =>
         /\ graphs'[last'.other].nodes = {}
         /\ graphs'[last'.other].edges = <<>>
         /\ empty(graphs'[last'.other]).ret = "true"
         /\ graphs'[last'.this] = graphs[last'.other]]_vars

\* A move assignment between two objects that has handed over as many edges
\* as the bound allows.
C15_Witness ==
    /\ last.op = "operator=(graph&&)" /\ last.this # last.other
    /\ Len(graphs[last.this].edges) = PairMaxEdges
    /\ graphs[last.other] = graph({})

\* C16: edges(src, dst) with src and dst both nodes returns exactly the edges
\* of the graph from src to dst, each once, the unweighted one (if any) first
\* and the weighted ones after it by ascending weight, and leaves the graph
\* as it was.
C16_EdgesListsEachOnce ==
    [][(last'.op = "edges"
            /\ last'.x \in Before.nodes /\ last'.y \in Before.nodes) =>
         LET result == last'.out
             between == {e \in EdgeSet(Before) : e.src = last'.x /\ e.dst = last'.y}
         IN  /\ After = Before
             /\ {result[k] : k \in 1..Len(result)} = between
             /\ Len(result) = Cardinality(between)
             /\ \A j, k \in 1..Len(result) :
                    j < k => Precedes(result[j], result[k])]_vars

\* C17: find(src, dst, weight?) returns an iterator that is not end() and
\* whose dereference is {src, dst, weight?} when the graph holds an edge from
\* src to dst with that weight (with none, when none is given), and returns
\* end() when it holds no such edge, src or dst being a node or not; it
\* raises no error.
C17_FindMatchOrEnd ==
    last.op = "find" =>
        LET G == Current
            target == [src |-> last.x, dst |-> last.y, weight |-> last.weight]
        IN  /\ last.ret = "iterator"
            /\ IF target \in EdgeSet(G)
               THEN /\ ~iterator_equals(last.it, end(G))
                    /\ dereference(G, last.it)
                         = [from |-> last.x, to |-> last.y, weight |-> last.weight]
               ELSE iterator_equals(last.it, end(G))

\* A find that has returned the weighted edge stored after the unweighted
\* edge between the same two nodes.
C17_Witness ==
    /\ last.op = "find" /\ last.weight # nullopt
    /\ ~iterator_equals(last.it, end(Current))
    /\ \E k \in 1..Len(Current.edges) :
           /\ k < last.it
           /\ get_nodes(Current.edges[k]) = <<last.x, last.y>>

\* C18: a call of insert_node, insert_edge, replace_node, erase_node or
\* erase_edge that returns false leaves the nodes and the edges, their order
\* included, as they were; and it returns false for the reason stated: the
\* value inserted is a node, the edge inserted is held, the new value of
\* replace_node is a node, the value erased is no node, no edge matches the
\* one erased.
C18_FalseLeavesUnchanged ==
    [][(last'.op \in {"insert_node", "insert_edge", "replace_node",
                      "erase_node", "erase_edge"}
            /\ last'.ret = "false") =>
         LET target == [src |-> last'.x, dst |-> last'.y, weight |-> last'.weight]
         IN  /\ After.nodes = Before.nodes
             /\ After.edges = Before.edges
             /\ last'.op = "insert_node" => last'.x \in Before.nodes
             /\ last'.op = "insert_edge" => target \in EdgeSet(Before)
             /\ last'.op = "replace_node" => last'.y \in Before.nodes
             /\ last'.op = "erase_node" => last'.x \notin Before.nodes
             /\ last'.op = "erase_edge" => target \notin EdgeSet(Before)]_vars

\* A replace_node that has returned false on a graph that holds an edge of
\* the node to be replaced.
C18_Witness ==
    /\ last.op = "replace_node" /\ last.ret = "false" /\ last.x # last.y
    /\ \E e \in EdgeSet(Current) : Incident(e, last.x)

\* C19: insert_node(v) returns true exactly when v was no node before the
\* call; after it v is a node, every other value is a node exactly if it was
\* one before, and the edges are as they were.
C19_InsertNodeIffAbsent ==
    [][last'.op = "insert_node" =>
         /\ last'.ret = (IF last'.x \in Before.nodes THEN "false" ELSE "true")
         /\ is_node(After, last'.x)
         /\ \A v \in Nodes \ {last'.x} : is_node(After, v) <=> is_node(Before, v)
         /\ After.edges = Before.edges]_vars

\* An insert_node that has returned true on a graph that holds edges.
C19_Witness ==
    /\ last.op = "insert_node" /\ last.ret = "true"
    /\ Len(Current.edges) = MaxEdges

\* The iterator reached from it by n applications of ++.
RECURSIVE advance(_, _)
advance(it, n) == IF n = 0 THEN it ELSE advance(increment(it), n - 1)

\* C20: in every state, the iterator begin() returns equals end() after as
\* many ++ as the graph holds edges and after no fewer (so at once when it
\* holds none, whatever its nodes); after k - 1 of them its dereference is
\* the {from, to, weight?} of the k-th stored edge, so that the walk yields
\* every stored edge once, in storage order; -- after ++ gives back the
\* iterator ++ was applied to; and the iterators and values the calls have
\* returned are these.
C20_WalkInStorageOrder ==
    LET G == Current
        n == Len(G.edges)
        at(k) == advance(begin(G), k - 1)
        value(e) == [from |-> e.src, to |-> e.dst, weight |-> e.weight]
    IN  /\ \A k \in 1..(n + 1) : iterator_equals(at(k), end(G)) <=> k = n + 1
        /\ \A k \in 1..n : dereference(G, at(k)) = value(G.edges[k])
        /\ \A k \in 1..n : iterator_equals(decrement(increment(at(k))), at(k))
        /\ last.op = "begin" => iterator_equals(last.it, at(1))
        /\ last.op = "end" => iterator_equals(last.it, at(n + 1))
        /\ last.op \in {"operator++", "operator--", "operator*"} =>
               \E k \in 1..(n + 1) : iterator_equals(last.it, at(k))
        /\ last.op = "operator*" =>
               \E k \in 1..n : /\ iterator_equals(last.it, at(k))
                                /\ last.out = <<value(G.edges[k])>>

\* A walk that has reached end() by ++ over as many edges as the bound
\* allows, in a graph with a node that no edge leaves.
C20_Witness ==
    /\ last.op = "operator++" /\ iterator_equals(last.it, end(Current))
    /\ Len(Current.edges) = MaxEdges
    /\ \E v \in Current.nodes : \A e \in EdgeSet(Current) : e.src # v

\* a holds the elements of b that it holds in the order b holds them: a is b
\* with some of its elements left out.
RECURSIVE IsSubsequence(_, _)
IsSubsequence(a, b) ==
    IF a = <<>> THEN TRUE
    ELSE IF b = <<>> THEN FALSE
    ELSE \/ Head(a) = Head(b) /\ IsSubsequence(Tail(a), Tail(b))
         \/ IsSubsequence(a, Tail(b))

\* C21: whatever the order of the edges before the call, after an insert_edge
\* that returns true and after a merge_replace_node that raises no error all
\* the edges are in canonical order (src, dst, unweighted before weighted,
\* weight); after erase_node and erase_edge the edges that remain are in the
\* order they had, and an insert_edge that returns false leaves the edges in
\* the order they had.
C21_SortedAfterInsertAndMerge ==
    [][/\ (last'.op = "insert_edge" /\ last'.ret = "true") =>
            IsCanonical(After.edges)
       /\ (last'.op = "merge_replace_node" /\ last'.ret = "void") =>
            IsCanonical(After.edges)
       /\ (last'.op \in {"erase_node", "erase_edge"} /\ last'.ret # "throws") =>
            IsSubsequence(After.edges, Before.edges)
       /\ (last'.op = "insert_edge" /\ last'.ret = "false") =>
            After.edges = Before.edges]_vars

\* An insert_edge that has returned true and left as many edges as the bound
\* allows, a weighted and an unweighted one among them.
C21_Witness ==
    /\ last.op = "insert_edge" /\ last.ret = "true"
    /\ Len(Current.edges) = OrderMaxEdges
    /\ \E e1, e2 \in EdgeSet(Current) : is_weighted(e1) /\ ~is_weighted(e2)

====
